---- MODULE Spec2Model ----
(***************************************************************************)
(* Model of mys_goods_tool/exchange_mode.py: the exchange scheduler        *)
(* (get_scheduler), the dispatch coroutine (exchange_begin), the failure   *)
(* callbacks (_on_fail and the closures of exchange_mode_simple) and the   *)
(* headless driver (exchange_mode_simple).                                 *)
(*                                                                         *)
(* Time is a discrete clock of absolute instants (epoch ticks).  The       *)
(* library calls the module makes are modelled by their documented         *)
(* behaviour, at the place of the call:                                    *)
(*   - datetime.fromtimestamp(ts) is the naive wall-clock reading of ts    *)
(*     in the host's local timezone;                                       *)
(*   - an APScheduler "date" trigger given a naive run_date reads it in    *)
(*     the scheduler's timezone;                                           *)
(*   - a job that is processed more than misfire_grace_time late is        *)
(*     skipped; a "date" job leaves the job table once processed;          *)
(*   - AsyncIOScheduler processes jobs only while it is running and only   *)
(*     on a running event loop; coroutines advance only on a running       *)
(*     event loop.                                                         *)
(***************************************************************************)
EXTENDS Integers, Sequences, FiniteSets, TLC

(***************************************************************************)
(* Bounds of the model.                                                    *)
(***************************************************************************)
MaxPlans == 2
MaxTime == 4
TzShift == 1
ProbeInterval == 2

NULL == "None"

(***************************************************************************)
(* ExchangeStatus: the nine flags, in the order _on_fail tests them.       *)
(***************************************************************************)
FlagOrder ==
    << "network_error", "missing_stoken", "missing_mid", "missing_address",
       "missing_game_uid", "unsupported_game", "failed_getting_game_record",
       "init_required", "account_not_found" >>

Flags == { FlagOrder[i] : i \in 1..Len(FlagOrder) }

\* A status is the set of its flags that are true.
AllStatuses == SUBSET Flags

(***************************************************************************)
(* Timezones: the UTC offset of each zone, in ticks.                       *)
(***************************************************************************)
Zones == { "UTC", "Asia/Shanghai" }

UtcOffset(tz) == IF tz = "Asia/Shanghai" THEN TzShift ELSE 0

\* Preference.timezone, the class default used when none is configured.
Preference_timezone == "Asia/Shanghai"

\* Preference.connection_test_interval, the class default.
Preference_connection_test_interval == ProbeInterval

\* misfire_grace_time of a job added without one (the scheduler's default).
MisfireGrace == 1

(***************************************************************************)
(* Configuration values the model draws from.                              *)
(***************************************************************************)
\* Release timestamps (plan.good.time, epoch ticks) of the configured plans.
ReleaseTimes == { TzShift, TzShift + 1 }

\* conf.exchange_plans: a list of plans, each given by its release timestamp;
\* a plan is named by its place in the list.  The lists are taken in
\* non-decreasing order of release: the job table is a set, and does not
\* depend on the order of the list.
PlanLists ==
    { pl \in UNION { [1..n -> ReleaseTimes] : n \in 0..MaxPlans } :
        \A i \in 1..Len(pl) : \A k \in 1..Len(pl) : i < k => pl[i] <= pl[k] }

\* conf.preference.exchange_latency: the jitter window (random_x, random_y).
LatencyWindows == { <<0, 1>>, <<1, 1>> }

\* (enable_connection_test, connection_test_interval); 0 is "not configured".
ProbeSettings == { <<FALSE, 0>>, <<TRUE, 0>>, <<TRUE, ProbeInterval + 1>> }

Configs ==
    { [ exchange_plans |-> pl, timezone |-> tz,
        enable_connection_test |-> ps[1], connection_test_interval |-> ps[2],
        exchange_latency |-> lw ] :
      pl \in PlanLists, tz \in {NULL, "UTC"}, ps \in ProbeSettings,
      lw \in LatencyWindows }

(***************************************************************************)
(* ExchangeResult, or None.  A present result names its plan and carries   *)
(* the success boolean (ExchangeResult.result).                            *)
(***************************************************************************)
None == [ none |-> TRUE, plan |-> 0, result |-> FALSE ]

Result(p, ok) == [ none |-> FALSE, plan |-> p, result |-> ok ]

Returned(st, r) == [ kind |-> "return", status |-> st, result |-> r ]

\* What good_exchange(plan) can do: return (status, result-or-None), or raise.
\* The pairs it returns: an exchange that succeeded, one that was refused,
\* and no result at all.
ExchangeReturns(p) ==
    { Returned({}, Result(p, TRUE)),
      Returned({"init_required"}, Result(p, FALSE)),
      Returned({"network_error"}, None) }

ExchangeRaises == [ kind |-> "raise", status |-> {}, result |-> None ]

NoReturn == [ kind |-> "none", status |-> {}, result |-> None ]

VARIABLES
    conf,        \* the configuration snapshot (conf.preference, conf.exchange_plans)
    localtz,     \* the host's local timezone
    now,         \* the clock: the current absolute instant
    pc,          \* where exchange_mode_simple is
    state,       \* the scheduler's state field
    started,     \* whether the scheduler's start() has ever succeeded
    jobs,        \* the scheduler's job table
    task,        \* per plan: where its exchange_begin coroutine is
    latency,     \* per plan: the delay it sampled
    fired,       \* per plan: the instants at which its job was run
    called,      \* per plan: the instants at which good_exchange was called
    xret,        \* per plan: what good_exchange did
    cbs,         \* per plan: the callback invocations, in order
    stoppedAt,   \* the instant of shutdown(), -1 before it
    pingLog,     \* the prober's last observation
    cbWhich,     \* callback harness: the callback under test
    cbStatus,    \* callback harness: its status argument
    cbResult,    \* callback harness: its result argument
    cbOutcome,   \* callback harness: what the call did
    enterVisible, \* ExchangeModeView.button_enter is shown
    exitVisible, \* ExchangeModeView.button_exit is shown
    display_text, \* ExchangeModeWarning.display_text
    posted,      \* the events the view has posted, in order
    pressed      \* the ids of the buttons pressed so far, in order

schedVars ==
    << conf, localtz, now, pc, state, started, jobs, task, latency, fired,
       called, xret, cbs, stoppedAt, pingLog >>

cbVars == << cbWhich, cbStatus, cbResult, cbOutcome >>

viewVars == << enterVisible, exitVisible, display_text, posted, pressed >>

vars == << schedVars, cbVars, viewVars >>

Plans == 1..Len(conf.exchange_plans)

Release(p) == conf.exchange_plans[p]

(***************************************************************************)
(* _on_fail: the classification (the if/elif chain), then the log line.    *)
(* The categories are named after their flags; "unknown" is the else.      *)
(***************************************************************************)
\* Faulty variant of Classify: the tests of missing_mid and missing_address
\* stand before those of network_error and missing_stoken.
ClassifyReordered(status) ==
    IF "missing_mid" \in status THEN "missing_mid"
    ELSE IF "missing_address" \in status THEN "missing_address"
    ELSE IF "network_error" \in status THEN "network_error"
    ELSE IF "missing_stoken" \in status THEN "missing_stoken"
    ELSE IF "missing_game_uid" \in status THEN "missing_game_uid"
    ELSE IF "unsupported_game" \in status THEN "unsupported_game"
    ELSE IF "failed_getting_game_record" \in status THEN "failed_getting_game_record"
    ELSE IF "init_required" \in status THEN "init_required"
    ELSE IF "account_not_found" \in status THEN "account_not_found"
    ELSE "unknown"

Classify(status) ==
    IF "network_error" \in status THEN "network_error"
    ELSE IF "missing_stoken" \in status THEN "missing_stoken"
    ELSE IF "missing_mid" \in status THEN "missing_mid"
    ELSE IF "missing_address" \in status THEN "missing_address"
    ELSE IF "missing_game_uid" \in status THEN "missing_game_uid"
    ELSE IF "unsupported_game" \in status THEN "unsupported_game"
    ELSE IF "failed_getting_game_record" \in status THEN "failed_getting_game_record"
    ELSE IF "init_required" \in status THEN "init_required"
    ELSE IF "account_not_found" \in status THEN "account_not_found"
    ELSE "unknown"

\* What a callback does: it writes one log line, or an exception leaves it.
Logged(level, p, reason) ==
    [ raised |-> FALSE, level |-> level, plan |-> p, reason |-> reason ]

\* result.plan... on a result that is None: AttributeError.
AttributeError == [ raised |-> TRUE, level |-> "", plan |-> 0, reason |-> "" ]

\* The f-string of a log line reads result.plan.account.bbs_uid and
\* result.plan.good.general_name: it needs a result.
LogLine(level, result, reason) ==
    IF result.none THEN AttributeError ELSE Logged(level, result.plan, reason)

_on_fail(status, result) == LogLine("error", result, Classify(status))

\* The closures of exchange_mode_simple; both ignore the status.
simple_on_success(status, result) == LogLine("info", result, "")

simple_on_fail(status, result) == LogLine("error", result, "")

Invoke(cb, status, result) ==
    CASE cb = "_on_fail" -> _on_fail(status, result)
      [] cb = "simple.on_success" -> simple_on_success(status, result)
      [] cb = "simple.on_fail" -> simple_on_fail(status, result)

(***************************************************************************)
(* get_scheduler: the timezone, and the job table it registers.            *)
(***************************************************************************)
\* datetime.fromtimestamp(ts): the naive local wall-clock reading of ts.
FromTimestamp(ts, tz) == ts + UtcOffset(tz)

\* A naive run_date read in timezone tz: the instant it denotes.
Localize(naive, tz) == naive - UtcOffset(tz)

\* conf.preference.timezone or Preference.timezone
SchedulerTimezone(c) ==
    IF c.timezone # NULL THEN c.timezone ELSE Preference_timezone

\* conf.preference.connection_test_interval or Preference.connection_test_interval
Interval(c) ==
    IF c.connection_test_interval # 0 THEN c.connection_test_interval
    ELSE Preference_connection_test_interval

\* The instant at which plan p's "date" job triggers.
RunDate(c, ltz, p) ==
    Localize(FromTimestamp(c.exchange_plans[p], ltz), SchedulerTimezone(c))

\* Faulty variant of DateJob: every job gets the run date of the first plan.
DateJobFirstRunDate(c, ltz, p, on_success, on_fail) ==
    [ func |-> "exchange_begin", trigger |-> "date", seconds |-> 0,
      next_run_time |-> RunDate(c, ltz, 1),
      args |-> << p, on_success, on_fail >> ]

DateJob(c, ltz, p, on_success, on_fail) ==
    [ func |-> "exchange_begin", trigger |-> "date", seconds |-> 0,
      next_run_time |-> RunDate(c, ltz, p),
      args |-> << p, on_success, on_fail >> ]

\* An interval job first runs one interval after it is created.
ProbeJob(c, t) ==
    [ func |-> "_connection_test", trigger |-> "interval", seconds |-> Interval(c),
      next_run_time |-> t + Interval(c), args |-> << >> ]

get_scheduler(c, ltz, t, on_success, on_fail) ==
    (IF c.enable_connection_test THEN { ProbeJob(c, t) } ELSE {})
    \cup { DateJob(c, ltz, p, on_success, on_fail) : p \in 1..Len(c.exchange_plans) }

(***************************************************************************)
(* exchange_begin                                                          *)
(***************************************************************************)
\* random.uniform(random_x, random_y) on the clock's grid.
Uniform(x, y) == IF x <= y THEN x..y ELSE y..x

\* Faulty variant of Route: the success test inverted.
RouteInverted(result) ==
    IF ~result.none
    THEN IF result.result THEN "on_fail" ELSE "on_success"
    ELSE "on_fail"

\* Faulty variant of Route: only the presence of a result is tested.
RoutePresentOnly(result) ==
    IF ~result.none THEN "on_success" ELSE "on_fail"

\* The routing of lines 111-117: which callback parameter is called.
Route(result) ==
    IF ~result.none
    THEN IF result.result THEN "on_success" ELSE "on_fail"
    ELSE "on_fail"

\* The callback bound to that parameter in the job's args.
Bound(args, slot) == IF slot = "on_success" THEN args[2] ELSE args[3]

Idle == [ at |-> "none", args |-> << >> ]

\* Faulty variant of Finish: after a failure the coroutine sleeps and tries
\* again.
FinishRetry(p, ret) ==
    IF ret.kind = "raise"
    THEN /\ task' = [task EXCEPT ![p].at = "raised"]
         /\ cbs' = cbs
    ELSE LET slot == Route(ret.result)
             cb == Bound(task[p].args, slot)
             out == Invoke(cb, ret.status, ret.result)
         IN /\ cbs' = [cbs EXCEPT ![p] = Append(@,
                          [ slot |-> slot, cb |-> cb, status |-> ret.status,
                            result |-> ret.result, outcome |-> out ])]
            /\ task' = [task EXCEPT ![p].at =
                          IF slot = "on_fail" THEN "sleeping"
                          ELSE IF out.raised THEN "raised" ELSE "done"]

\* The rest of exchange_begin once good_exchange is over (lines 109-117):
\* an exception of good_exchange leaves the coroutine; a return is routed to
\* one callback, called with the returned pair; an exception of the callback
\* leaves the coroutine too.
Finish(p, ret) ==
    IF ret.kind = "raise"
    THEN /\ task' = [task EXCEPT ![p].at = "raised"]
         /\ cbs' = cbs
    ELSE LET slot == Route(ret.result)
             cb == Bound(task[p].args, slot)
             out == Invoke(cb, ret.status, ret.result)
         IN /\ cbs' = [cbs EXCEPT ![p] = Append(@,
                          [ slot |-> slot, cb |-> cb, status |-> ret.status,
                            result |-> ret.result, outcome |-> out ])]
            /\ task' = [task EXCEPT ![p].at =
                          IF out.raised THEN "raised" ELSE "done"]

(***************************************************************************)
(* The scheduler's start() and shutdown(): the new state, or an error      *)
(* (SchedulerAlreadyRunningError, SchedulerNotRunningError).               *)
(***************************************************************************)
SchedulerStart(s) ==
    IF s = "STATE_STOPPED"
    THEN [ state |-> "STATE_RUNNING", error |-> FALSE ]
    ELSE [ state |-> s, error |-> TRUE ]

SchedulerShutdown(s) ==
    IF s = "STATE_STOPPED"
    THEN [ state |-> s, error |-> TRUE ]
    ELSE [ state |-> "STATE_STOPPED", error |-> FALSE ]

\* asyncio.get_event_loop().run_forever() is executing.
LoopRunning == pc = "looping"

\* The scheduler processes its due jobs: it is running, on a running loop.
Processing == LoopRunning /\ state = "STATE_RUNNING"

\* The instant at which plan p's jitter sleep ends.
WakeTime(p) == fired[p][Len(fired[p])] + latency[p]

\* Something the event loop has to run at the current instant.
TimerDue ==
    \/ Processing /\ \E j \in jobs : j.next_run_time <= now
    \/ LoopRunning /\ \E p \in Plans : task[p].at = "sleeping" /\ WakeTime(p) <= now

NotCalled == [ raised |-> FALSE, level |-> "", plan |-> 0, reason |-> "not called" ]

(***************************************************************************)
(* ExchangeModeWarning and ExchangeModeView as the class bodies leave them *)
(* (lines 162-164 and 196-199): the enter button shown, the exit button    *)
(* hidden, the text asking for confirmation, nothing posted.               *)
(***************************************************************************)
ENTER_TEXT == "ENTER_TEXT"

EXIT_TEXT == "EXIT_TEXT"

ViewInit ==
    /\ enterVisible = TRUE
    /\ exitVisible = FALSE
    /\ display_text = ENTER_TEXT
    /\ posted = << >>
    /\ pressed = << >>

\* Before exchange_mode_simple is called: no scheduler, no job, no task.
SchedInit ==
    /\ now = 0
    /\ pc = "idle"
    /\ state = "STATE_STOPPED"
    /\ started = FALSE
    /\ jobs = {}
    /\ task = [p \in Plans |-> Idle]
    /\ latency = [p \in Plans |-> 0]
    /\ fired = [p \in Plans |-> << >>]
    /\ called = [p \in Plans |-> << >>]
    /\ xret = [p \in Plans |-> NoReturn]
    /\ cbs = [p \in Plans |-> << >>]
    /\ stoppedAt = -1
    /\ pingLog = "none"

Init ==
    /\ conf \in Configs
    /\ localtz \in Zones
    /\ SchedInit
    /\ cbWhich = "none"
    /\ cbStatus = {}
    /\ cbResult = None
    /\ cbOutcome = NotCalled
    /\ ViewInit

(***************************************************************************)
(* exchange_mode_simple                                                    *)
(***************************************************************************)
\* Faulty variant of Simple_NoPlans: the return of line 127 is missing, so
\* the function goes on to build the scheduler.
Simple_NoPlansFallsThrough ==
    /\ pc = "idle"
    /\ conf.exchange_plans = << >>
    /\ jobs' = get_scheduler(conf, localtz, now, "simple.on_success", "simple.on_fail")
    /\ pc' = "built"
    /\ UNCHANGED << conf, localtz, now, state, started, task, latency,
                    fired, called, xret, cbs, stoppedAt, pingLog >>
    /\ UNCHANGED << cbVars, viewVars >>

\* Lines 125-127: no plan, log and return.
Simple_NoPlans ==
    /\ pc = "idle"
    /\ conf.exchange_plans = << >>
    /\ pc' = "returned"
    /\ UNCHANGED << conf, localtz, now, state, started, jobs, task, latency,
                    fired, called, xret, cbs, stoppedAt, pingLog >>
    /\ UNCHANGED << cbVars, viewVars >>

\* Lines 129-135: the two closures, and get_scheduler with them.
Simple_Build ==
    /\ pc = "idle"
    /\ conf.exchange_plans # << >>
    /\ jobs' = get_scheduler(conf, localtz, now, "simple.on_success", "simple.on_fail")
    /\ pc' = "built"
    /\ UNCHANGED << conf, localtz, now, state, started, task, latency,
                    fired, called, xret, cbs, stoppedAt, pingLog >>
    /\ UNCHANGED << cbVars, viewVars >>

\* Lines 137-139: scheduler.start(), then run_forever().
Simple_Start ==
    /\ pc = "built"
    /\ LET r == SchedulerStart(state)
       IN /\ state' = r.state
          /\ started' = (started \/ ~r.error)
          /\ pc' = IF r.error THEN "crashed" ELSE "looping"
    /\ UNCHANGED << conf, localtz, now, jobs, task, latency,
                    fired, called, xret, cbs, stoppedAt, pingLog >>
    /\ UNCHANGED << cbVars, viewVars >>

\* Faulty variant of Simple_Interrupt: the handler logs that the timer has
\* stopped, but neither shuts the scheduler down nor leaves the loop.
Simple_InterruptSwallowed ==
    /\ pc \in { "built", "looping" }
    /\ stoppedAt = -1
    /\ stoppedAt' = now
    /\ UNCHANGED << conf, localtz, now, pc, state, started, jobs, task, latency,
                    fired, called, xret, cbs, pingLog >>
    /\ UNCHANGED << cbVars, viewVars >>

\* Faulty variant of Simple_Interrupt: the handler shuts the scheduler down,
\* then starts it again and goes back into the loop.
Simple_InterruptRestart ==
    /\ pc \in { "built", "looping" }
    /\ stoppedAt = -1
    /\ LET r == SchedulerShutdown(state)
       IN /\ state' = IF r.error THEN r.state ELSE SchedulerStart(r.state).state
          /\ stoppedAt' = IF r.error THEN stoppedAt ELSE now
          /\ pc' = IF r.error THEN "crashed" ELSE "looping"
    /\ UNCHANGED << conf, localtz, now, started, jobs, task, latency,
                    fired, called, xret, cbs, pingLog >>
    /\ UNCHANGED << cbVars, viewVars >>

\* Lines 140-142: KeyboardInterrupt inside the try block, before start() or in
\* run_forever(): the loop is left, scheduler.shutdown() is called, and the
\* function returns (an exception of shutdown() leaves it instead).
Simple_Interrupt ==
    /\ pc \in { "built", "looping" }
    /\ LET r == SchedulerShutdown(state)
       IN /\ state' = r.state
          /\ stoppedAt' = IF r.error THEN stoppedAt ELSE now
          /\ pc' = IF r.error THEN "crashed" ELSE "returned"
    /\ UNCHANGED << conf, localtz, now, started, jobs, task, latency,
                    fired, called, xret, cbs, pingLog >>
    /\ UNCHANGED << cbVars, viewVars >>

(***************************************************************************)
(* The scheduler at work                                                   *)
(***************************************************************************)
\* The scheduler takes its due jobs in the order of their run times.
EarliestDue(j) == \A k \in jobs : j.next_run_time <= k.next_run_time

\* A due "date" job is processed: it leaves the table; if it is late by more
\* than the grace time it is skipped, else exchange_begin starts (line 105),
\* samples its delay (106-107) and sleeps (108).
JobFire(j) ==
    /\ Processing
    /\ j \in jobs
    /\ j.trigger = "date"
    /\ j.next_run_time <= now
    /\ EarliestDue(j)
    /\ jobs' = jobs \ {j}
    /\ LET p == j.args[1]
       IN IF now - j.next_run_time > MisfireGrace
          THEN /\ task' = [task EXCEPT ![p] = [ at |-> "missed", args |-> j.args ]]
               /\ UNCHANGED << latency, fired >>
          ELSE /\ task' = [task EXCEPT ![p] = [ at |-> "sleeping", args |-> j.args ]]
               /\ fired' = [fired EXCEPT ![p] = Append(@, now)]
               /\ \E l \in Uniform(conf.exchange_latency[1], conf.exchange_latency[2]) :
                      latency' = [latency EXCEPT ![p] = l]
    /\ UNCHANGED << conf, localtz, now, pc, state, started,
                    called, xret, cbs, stoppedAt, pingLog >>
    /\ UNCHANGED << cbVars, viewVars >>

\* Faulty variant of BeginCall: the dispatches are serialized, a dispatch
\* issues its call only when no other dispatch is in its call.
BeginCallSerialized(p) ==
    /\ LoopRunning
    /\ task[p].at = "sleeping"
    /\ WakeTime(p) <= now
    /\ \A q \in Plans \ {p} : task[q].at # "awaiting"
    /\ task' = [task EXCEPT ![p].at = "awaiting"]
    /\ called' = [called EXCEPT ![p] = Append(@, now)]
    /\ UNCHANGED << conf, localtz, now, pc, state, started, jobs, latency,
                    fired, xret, cbs, stoppedAt, pingLog >>
    /\ UNCHANGED << cbVars, viewVars >>

\* Line 109: the sleep is over, good_exchange(plan) is called.
BeginCall(p) ==
    /\ LoopRunning
    /\ task[p].at = "sleeping"
    /\ WakeTime(p) <= now
    /\ task' = [task EXCEPT ![p].at = "awaiting"]
    /\ called' = [called EXCEPT ![p] = Append(@, now)]
    /\ UNCHANGED << conf, localtz, now, pc, state, started, jobs, latency,
                    fired, xret, cbs, stoppedAt, pingLog >>
    /\ UNCHANGED << cbVars, viewVars >>

\* Lines 109-117: good_exchange is over; the result is routed.
BeginFinish(p, ret) ==
    /\ LoopRunning
    /\ task[p].at = "awaiting"
    /\ xret' = [xret EXCEPT ![p] = ret]
    /\ Finish(p, ret)
    /\ UNCHANGED << conf, localtz, now, pc, state, started, jobs, latency,
                    fired, called, stoppedAt, pingLog >>
    /\ UNCHANGED << cbVars, viewVars >>

\* _connection_test (lines 63-70): what ping3.ping returned, as logged.
Observation(ping) ==
    IF ping = "None" THEN "timeout"
    ELSE IF ping = "False" THEN "failed"
    ELSE "delay"

PingResults == { "None", "False", "12.34" }

\* The due interval job runs _connection_test and is scheduled again.
ProbeFire(j, ping) ==
    /\ Processing
    /\ j \in jobs
    /\ j.trigger = "interval"
    /\ j.next_run_time <= now
    /\ EarliestDue(j)
    /\ jobs' = (jobs \ {j}) \cup { [j EXCEPT !.next_run_time = @ + j.seconds] }
    /\ pingLog' = Observation(ping)
    /\ UNCHANGED << conf, localtz, now, pc, state, started, task, latency,
                    fired, called, xret, cbs, stoppedAt >>
    /\ UNCHANGED << cbVars, viewVars >>

\* Time passes, unless the running loop has something to run now.  Before the
\* driver is called time passes freely; after it is over nothing is left that
\* could run, and the clock goes to the end of the model's time at once.
Tick ==
    /\ now < MaxTime
    /\ pc \in { "idle", "looping", "returned", "crashed" }
    /\ ~TimerDue
    /\ now' = IF pc \in { "returned", "crashed" } THEN MaxTime ELSE now + 1
    /\ UNCHANGED << conf, localtz, pc, state, started, jobs, task, latency,
                    fired, called, xret, cbs, stoppedAt, pingLog >>
    /\ UNCHANGED << cbVars, viewVars >>

Next ==
    \/ Simple_NoPlans
    \/ Simple_Build
    \/ Simple_Start
    \/ Simple_Interrupt
    \/ \E j \in jobs : JobFire(j)
    \/ \E p \in Plans : BeginCall(p)
    \/ \E p \in Plans : \E ret \in ExchangeReturns(p) \cup { ExchangeRaises } :
           BeginFinish(p, ret)
    \/ \E j \in jobs : \E ping \in PingResults : ProbeFire(j, ping)
    \/ Tick

Spec == Init /\ [][Next]_vars

(***************************************************************************)
(* The callbacks on their own: every status, with and without a result.    *)
(***************************************************************************)
Callbacks == { "_on_fail", "simple.on_success", "simple.on_fail" }

NoPlansConf ==
    [ exchange_plans |-> << >>, timezone |-> NULL,
      enable_connection_test |-> FALSE, connection_test_interval |-> 0,
      exchange_latency |-> <<0, 1>> ]

InitCallbacks ==
    /\ conf = NoPlansConf
    /\ localtz = "UTC"
    /\ SchedInit
    /\ cbWhich = "none"
    /\ cbStatus \in AllStatuses
    /\ cbResult \in { None, Result(1, TRUE), Result(1, FALSE) }
    /\ cbOutcome = NotCalled
    /\ ViewInit

\* The callback cb is called with (cbStatus, cbResult).
Call(cb) ==
    /\ cbWhich = "none"
    /\ cbWhich' = cb
    /\ cbOutcome' = Invoke(cb, cbStatus, cbResult)
    /\ UNCHANGED << cbStatus, cbResult >>
    /\ UNCHANGED << schedVars, viewVars >>

NextCallbacks == \E cb \in Callbacks : Call(cb)

SpecCallbacks == InitCallbacks /\ [][NextCallbacks]_vars

(***************************************************************************)
(* The interactive view: ExchangeModeView and its button handler.          *)
(***************************************************************************)
MaxPresses == 4

ButtonEnterId == "button-exchange_mode-enter"

ButtonExitId == "button-exchange_mode-exit"

\* The ids a ControllableButton.Pressed event can carry: the two buttons of
\* the view, and a button of another widget.
ButtonIds == { ButtonEnterId, ButtonExitId, "button-other" }

InitView ==
    /\ conf = NoPlansConf
    /\ localtz = "UTC"
    /\ SchedInit
    /\ cbWhich = "none"
    /\ cbStatus = {}
    /\ cbResult = None
    /\ cbOutcome = NotCalled
    /\ ViewInit

\* The handler with an exit branch that does not put the text back.
PressedExitKeepsText(id) ==
    /\ Len(pressed) < MaxPresses
    /\ pressed' = Append(pressed, id)
    /\ IF id = ButtonEnterId
       THEN /\ enterVisible' = FALSE
            /\ exitVisible' = TRUE
            /\ display_text' = EXIT_TEXT
            /\ posted' = Append(posted, "EnterExchangeMode")
       ELSE IF id = ButtonExitId
       THEN /\ exitVisible' = FALSE
            /\ enterVisible' = TRUE
            /\ posted' = Append(posted, "ExitExchangeMode")
            /\ UNCHANGED display_text
       ELSE UNCHANGED << enterVisible, exitVisible, display_text, posted >>
    /\ UNCHANGED << schedVars, cbVars >>

\* The handler with an enter branch that does not hide the enter button.
PressedEnterStaysShown(id) ==
    /\ Len(pressed) < MaxPresses
    /\ pressed' = Append(pressed, id)
    /\ IF id = ButtonEnterId
       THEN /\ exitVisible' = TRUE
            /\ display_text' = EXIT_TEXT
            /\ posted' = Append(posted, "EnterExchangeMode")
            /\ UNCHANGED enterVisible
       ELSE IF id = ButtonExitId
       THEN /\ exitVisible' = FALSE
            /\ enterVisible' = TRUE
            /\ display_text' = ENTER_TEXT
            /\ posted' = Append(posted, "ExitExchangeMode")
       ELSE UNCHANGED << enterVisible, exitVisible, display_text, posted >>
    /\ UNCHANGED << schedVars, cbVars >>

\* ExchangeModeView._on_button_pressed (lines 207-218) for a press of the
\* button id: the two branches flip the buttons and the text and post one
\* event; any other id falls through both tests.
_on_button_pressed(id) ==
    /\ Len(pressed) < MaxPresses
    /\ pressed' = Append(pressed, id)
    /\ IF id = ButtonEnterId
       THEN /\ enterVisible' = FALSE
            /\ exitVisible' = TRUE
            /\ display_text' = EXIT_TEXT
            /\ posted' = Append(posted, "EnterExchangeMode")
       ELSE IF id = ButtonExitId
       THEN /\ exitVisible' = FALSE
            /\ enterVisible' = TRUE
            /\ display_text' = ENTER_TEXT
            /\ posted' = Append(posted, "ExitExchangeMode")
       ELSE UNCHANGED << enterVisible, exitVisible, display_text, posted >>
    /\ UNCHANGED << schedVars, cbVars >>

NextView == \E id \in ButtonIds : _on_button_pressed(id)

SpecView == InitView /\ [][NextView]_vars

(***************************************************************************)
(* Properties                                                              *)
(***************************************************************************)
Success(ret) == ret.kind = "return" /\ ~ret.result.none /\ ret.result.result

Failure(ret) == ret.kind = "return" /\ (ret.result.none \/ ~ret.result.result)

\* The one callback invocation of plan p was the callback bound to slot,
\* called with the pair good_exchange returned.
OnlyCall(p, slot, cb) ==
    /\ Len(cbs[p]) = 1
    /\ cbs[p][1].slot = slot
    /\ cbs[p][1].cb = cb
    /\ cbs[p][1].status = xret[p].status
    /\ cbs[p][1].result = xret[p].result

\* C1: when good_exchange returned (status, result) with a result whose
\* success flag is true, on_success has been called exactly once, with that
\* pair, and on_fail has not been called.
C1_SuccessCallsOnSuccessOnce ==
    \A p \in Plans :
        Success(xret[p]) => OnlyCall(p, "on_success", "simple.on_success")

C1_Witness ==
    \E p \in Plans : Success(xret[p]) /\ Len(cbs[p]) = 1 /\ task[p].at = "done"

\* C2: when good_exchange returned (status, None), or (status, result) with the
\* success flag false, on_fail has been called exactly once, with that pair
\* (the result None included), and on_success has not been called.
C2_FailureCallsOnFailOnce ==
    \A p \in Plans :
        Failure(xret[p]) => OnlyCall(p, "on_fail", "simple.on_fail")

C2_Witness ==
    \E p \in Plans : \E q \in Plans :
        /\ xret[p].kind = "return" /\ xret[p].result.none /\ Len(cbs[p]) = 1
        /\ xret[q].kind = "return" /\ ~xret[q].result.none
        /\ ~xret[q].result.result /\ Len(cbs[q]) = 1

\* C3: a failure callback (_on_fail, or the on_fail of exchange_mode_simple)
\* called with (status, None) completes normally: it writes its log line and
\* raises nothing, whatever the status.
C3_FailureCallbackToleratesNone ==
    (cbWhich \in { "_on_fail", "simple.on_fail" } /\ cbResult.none)
        => ~cbOutcome.raised

\* C4: no plan's job runs, and no exchange call of it is made, at an instant
\* earlier than the plan's release timestamp, whatever the configured and
\* the host's timezones are.
C4_NeverBeforeRelease ==
    \A p \in Plans :
        /\ \A i \in 1..Len(fired[p]) : fired[p][i] >= Release(p)
        /\ \A i \in 1..Len(called[p]) : called[p][i] >= Release(p)

Lifecycle ==
    IF state = "STATE_RUNNING" THEN "running"
    ELSE IF started THEN "stopped" ELSE "built"

DateJobsOf(table, p) == { j \in table : j.trigger = "date" /\ j.args[1] = p }

\* C5: the job table get_scheduler builds holds exactly one "date" job per
\* configured plan, triggering at exactly the plan's release timestamp and
\* bound to exchange_begin with the plan and the two callbacks, and exactly
\* one interval job of the prober if and only if the connection test is
\* enabled; with no plan and the test disabled the table is empty and no
\* callback is ever called.
C5_JobTable ==
    /\ pc = "built" =>
        /\ \A p \in Plans :
              DateJobsOf(jobs, p) =
                  { [ func |-> "exchange_begin", trigger |-> "date", seconds |-> 0,
                      next_run_time |-> Release(p),
                      args |-> << p, "simple.on_success", "simple.on_fail" >> ] }
        /\ \A j \in jobs : j.trigger = "date" => j.args[1] \in Plans
        /\ Cardinality({ j \in jobs : j.trigger = "interval" }) =
               IF conf.enable_connection_test THEN 1 ELSE 0
        /\ \A j \in jobs : j.trigger = "interval" =>
               j.func = "_connection_test" /\ j.seconds = Interval(conf)
    /\ (conf.exchange_plans = << >> /\ ~conf.enable_connection_test) =>
        /\ get_scheduler(conf, localtz, now, "simple.on_success", "simple.on_fail") = {}
        /\ jobs = {}

\* C6: when one plan's dispatch has raised (good_exchange raised, or the
\* callback it called raised), every other plan's job still runs at its own
\* release timestamp, and a dispatch of it that is over without an exception
\* has called exactly one of its callbacks.  (Stated here by what it implies
\* for the other plans' jobs that have run: none ran before its release
\* timestamp.)
C6_OtherJobsAtTheirRelease ==
    \A p \in Plans : \A q \in Plans :
        (p # q /\ task[p].at = "raised") =>
            /\ \A i \in 1..Len(fired[q]) : fired[q][i] >= Release(q)
            /\ task[q].at = "done" => Len(cbs[q]) = 1

\* C7: after shutdown() on the running scheduler, a "date" job that has not
\* run yet never runs: for every plan whose job is still pending, and for
\* every plan whose release timestamp lies after the instant of shutdown, no
\* step runs the job, calls good_exchange or calls a callback, however far
\* the clock goes on.
C7_NothingRunsAfterShutdown ==
    [][ stoppedAt # -1 =>
          \A p \in Plans :
              (fired[p] = << >> \/ Release(p) > stoppedAt) =>
                  /\ fired'[p] = fired[p]
                  /\ called'[p] = called[p]
                  /\ cbs'[p] = cbs[p]
                  /\ task'[p] = task[p] ]_vars

\* A plan released after the shutdown, its job still in the table, with the
\* clock past its trigger and past its release.
C7_Witness ==
    /\ stoppedAt # -1
    /\ \E j \in jobs :
          /\ j.trigger = "date"
          /\ Release(j.args[1]) > stoppedAt
          /\ now > j.next_run_time
          /\ now > Release(j.args[1])
          /\ fired[j.args[1]] = << >>

\* C8: a dispatch that is awaiting good_exchange when shutdown() begins is
\* not abandoned: it goes on to call one of its callbacks.  (Stated on the
\* final state: once the driver has returned, no dispatch is left awaiting
\* good_exchange.)
C8_InFlightDispatchCompletes ==
    pc = "returned" => \A p \in Plans : task[p].at # "awaiting"

C10_SingleAttempt ==
    \A p \in Plans :
        /\ Len(fired[p]) <= 1
        /\ Len(called[p]) <= 1
        /\ Len(cbs[p]) <= 1

\* A failed attempt that is over, with the clock gone on.
C10_Witness ==
    \E p \in Plans :
        /\ Failure(xret[p])
        /\ Len(called[p]) = 1
        /\ Len(cbs[p]) = 1
        /\ now > called[p][1]


(***************************************************************************)
(* C11: in headless mode every failed attempt is classified into one       *)
(* category, and the error line written by the driver's failure callback   *)
(* names the plan (account and goods) together with that classified        *)
(* reason; the callback completes instead of raising.                      *)
(***************************************************************************)
C11_FailureLoggedWithReason ==
    \A p \in Plans :
        Failure(xret[p]) /\ cbs[p] # << >> =>
            LET out == cbs[p][1].outcome
            IN /\ cbs[p][1].cb = "simple.on_fail"
               /\ ~out.raised
               /\ out.level = "error"
               /\ out.plan = p
               /\ out.reason = Classify(xret[p].status)
               /\ out.reason \in Flags \cup { "unknown" }

(***************************************************************************)
(* C12: the classification of _on_fail is first-match over the priority    *)
(* order network_error, missing_stoken, missing_mid, missing_address,      *)
(* missing_game_uid, unsupported_game, failed_getting_game_record,         *)
(* init_required, account_not_found: for every set of flags the reason     *)
(* logged is the category of the set flag earliest in that order, the      *)
(* flag's own category when one flag is set, "unknown" when none is; it    *)
(* depends on nothing but the set of flags.                                *)
(***************************************************************************)
C12_Priority ==
    << "network_error", "missing_stoken", "missing_mid", "missing_address",
       "missing_game_uid", "unsupported_game", "failed_getting_game_record",
       "init_required", "account_not_found" >>

C12_Rank(f) == CHOOSE i \in 1..Len(C12_Priority) : C12_Priority[i] = f

C12_Highest(status) ==
    CHOOSE f \in status : \A g \in status : C12_Rank(f) <= C12_Rank(g)

C12_ClassifyIsFirstMatch ==
    cbWhich = "_on_fail" /\ ~cbResult.none =>
        /\ ~cbOutcome.raised
        /\ cbStatus = {} => cbOutcome.reason = "unknown"
        /\ cbStatus # {} => cbOutcome.reason = C12_Highest(cbStatus)
        /\ \A f \in Flags : cbStatus = { f } => cbOutcome.reason = f

C12_Witness ==
    /\ cbWhich = "_on_fail"
    /\ cbResult = Result(1, FALSE)
    /\ cbStatus = { "account_not_found", "init_required", "missing_mid",
                    "missing_address" }
    /\ cbOutcome.reason = "missing_mid"

(***************************************************************************)
(* C13: with a jitter window [a, b], a <= b, the delay a dispatch sleeps   *)
(* between its trigger and its exchange call lies in [a, b] and is exactly *)
(* a when a = b; so the exchange call of a plan is issued no earlier than  *)
(* its release timestamp + a.                                              *)
(***************************************************************************)
C13_DelayInWindow ==
    \A p \in Plans :
        LET a == conf.exchange_latency[1]
            b == conf.exchange_latency[2]
        IN a <= b /\ called[p] # << >> =>
               /\ latency[p] >= a /\ latency[p] <= b
               /\ a = b => latency[p] = a
               /\ called[p][1] >= fired[p][1] + latency[p]

C13_JitterDelay ==
    /\ C13_DelayInWindow
    /\ \A p \in Plans :
           called[p] # << >> =>
               called[p][1] >= Release(p) + conf.exchange_latency[1]

(***************************************************************************)
(* C14: with at least one plan the headless driver starts the scheduler,   *)
(* which stays running (it is not shut down) until an interrupt arrives;   *)
(* once the interrupt has been handled the scheduler has been shut down    *)
(* and the driver has returned without an error.                           *)
(***************************************************************************)
C14_RunsUntilInterruptThenReturns ==
    conf.exchange_plans # << >> =>
        /\ pc = "looping" => state = "STATE_RUNNING" /\ stoppedAt = -1
        /\ pc \notin { "idle", "built", "looping" } =>
               /\ pc = "returned"
               /\ started
               /\ state = "STATE_STOPPED"
               /\ stoppedAt # -1

(***************************************************************************)
(* C15: without plans the headless driver returns at once and normally:    *)
(* no scheduler is built or started, no job is registered (not even the    *)
(* connection test), and no callback is invoked.                           *)
(***************************************************************************)
C15_NoPlansIsNoOp ==
    conf.exchange_plans = << >> =>
        /\ pc \in { "idle", "returned" }
        /\ jobs = {}
        /\ ~started
        /\ state = "STATE_STOPPED"
        /\ stoppedAt = -1
        /\ pingLog = "none"
        /\ cbOutcome = NotCalled
        /\ \A p \in DOMAIN cbs : cbs[p] = << >>

C15_Witness ==
    /\ conf.exchange_plans = << >>
    /\ conf.enable_connection_test
    /\ pc = "returned"
    /\ now = MaxTime

(***************************************************************************)
(* C16: in the interactive driver the "enter" transition builds and starts *)
(* the scheduler and the "exit" transition shuts it down: the scheduler is *)
(* running exactly while the driver is in the entered state.               *)
(***************************************************************************)
Entered ==
    posted # << >> /\ posted[Len(posted)] = "EnterExchangeMode"

C16_SchedulerRunsWhileEntered ==
    /\ Entered <=> state = "STATE_RUNNING"
    /\ Entered => started /\ pc = "looping"

(***************************************************************************)
(* C17: from the initial view, pressing "enter" and then "exit" posts      *)
(* exactly two events, EnterExchangeMode then ExitExchangeMode, and leaves *)
(* the view as before the entry: enter shown, exit hidden, ENTER_TEXT.     *)
(***************************************************************************)
C17_EnterThenExitRestores ==
    /\ pressed = << ButtonEnterId >> =>
           posted = << "EnterExchangeMode" >>
    /\ pressed = << ButtonEnterId, ButtonExitId >> =>
           /\ posted = << "EnterExchangeMode", "ExitExchangeMode" >>
           /\ enterVisible
           /\ ~exitVisible
           /\ display_text = ENTER_TEXT

C17_Witness ==
    /\ pressed = << ButtonEnterId, ButtonExitId >>
    /\ Len(posted) = 2
    /\ enterVisible

C19_SleepDoesNotBlock ==
    \A p \in Plans :
        /\ called[p] # << >> => called[p][1] = fired[p][1] + latency[p]
        /\ LoopRunning /\ task[p].at = "sleeping" /\ WakeTime(p) <= now =>
               ENABLED BeginCall(p)

C19_Witness ==
    /\ Len(conf.exchange_plans) = 2
    /\ Release(1) = Release(2)
    /\ conf.exchange_latency[1] < conf.exchange_latency[2]
    /\ fired[1] # << >> /\ fired[2] # << >>
    /\ called[1] # << >> /\ called[2] # << >>
    /\ called[1][1] < called[2][1]
    /\ cbs[2] # << >>
    /\ cbs[1] = << >>
    /\ task[1].at = "awaiting"

(***************************************************************************)
(* C20: after any sequence of presses of the enter and exit buttons, in    *)
(* any order and with repeats, exactly one of the two buttons is shown,    *)
(* the text is EXIT_TEXT exactly when the exit button is the one shown,    *)
(* and every handled press has posted exactly one event, of the kind of    *)
(* the button pressed.                                                     *)
(***************************************************************************)
C20_IsHandled(id) == id \in { ButtonEnterId, ButtonExitId }

C20_EventOf(id) ==
    IF id = ButtonEnterId THEN "EnterExchangeMode" ELSE "ExitExchangeMode"

C20_ViewInvariant ==
    LET handled == SelectSeq(pressed, C20_IsHandled)
    IN /\ enterVisible # exitVisible
       /\ display_text \in { ENTER_TEXT, EXIT_TEXT }
       /\ display_text = EXIT_TEXT <=> exitVisible
       /\ posted = [ i \in 1..Len(handled) |-> C20_EventOf(handled[i]) ]

C20_Witness ==
    /\ pressed = << ButtonEnterId, ButtonEnterId, ButtonExitId, ButtonExitId >>
    /\ Len(posted) = 4
    /\ enterVisible
    /\ ~exitVisible

====
